---- MODULE Spec2Model ----
(***************************************************************************)
(* Model of src/jmter_report.py: JMeterReportGenerator and main().         *)
(*                                                                         *)
(* One run of main() is modelled: the generator is constructed over an     *)
(* input file (columns + rows), read_csv validates and coerces it, and     *)
(* generate_html_report runs its steps in order (three graphs, the         *)
(* statistics, the write of jmeter_report.html).                           *)
(*                                                                         *)
(* Number representation.  Raw numeric cells are non-negative integers     *)
(* (the text of the cell); a blank cell and a non-numeric text are the two *)
(* distinguished raw values Empty and NonNumeric.  Floats are exact:       *)
(* elapsed seconds are counted in ticks of 1/TicksPerSecond second,        *)
(* unrounded aggregates are fractions num/den of ticks, and a value        *)
(* rounded to 2 decimals is an integer number of hundredths.  NaN and NaT  *)
(* are explicit (the nan / nat field of a cell).  round() is modelled on   *)
(* the exact value (round-half-even); binary representation error at an    *)
(* exact tie is not modelled.                                              *)
(***************************************************************************)
EXTENDS Integers, Sequences, FiniteSets, TLC

VARIABLES
    pc,              \* position of main(): see PcValues
    columns,         \* the columns of the input file
    rows,            \* the rows of the input file, as read by pd.read_csv
    df,              \* self.df
    df_state,        \* "none" (self.df is None), "raw", "coerced"
    missing,         \* missing_columns computed by read_csv
    error,           \* what ended the run early, "none" otherwise
    response_time,   \* the trace of generate_response_time_graph
    throughput,      \* the trace of generate_throughput_graph
    error_dist,      \* the pie of generate_error_distribution
    stats,           \* the dict returned by calculate_statistics
    file,            \* jmeter_report.html: "none", "partial", "whole"
    steps            \* history: the steps of the run completed so far, in order

vars == <<pc, columns, rows, df, df_state, missing, error, response_time,
          throughput, error_dist, stats, file, steps>>

-----------------------------------------------------------------------------
(* Bounds and input domains *)

MaxRows == 3
MaxStatRows == 4
MaxGraphRows == 4

Empty == -1
NonNumeric == -2

TicksPerSecond == 10000

required_columns == <<"timeStamp", "elapsed", "success", "responseCode">>

RequiredSet == {required_columns[i] : i \in 1..Len(required_columns)}

TrueText == {"True", "true"}
FalseText == {"False", "false"}

PcValues == {"start", "read_ok", "response_time_done", "throughput_done",
             "error_dist_done", "stats_done", "done"}

-----------------------------------------------------------------------------
(* Helpers *)

RECURSIVE SeqsUpTo(_, _)
SeqsUpTo(S, n) ==
    IF n = 0 THEN {<<>>}
    ELSE LET shorter == SeqsUpTo(S, n - 1)
         IN  shorter \cup {Append(s, x) : s \in {t \in shorter : Len(t) = n - 1}, x \in S}

SetMin(S) == CHOOSE x \in S : \A y \in S : x <= y

RECURSIVE SetToSortedSeq(_)
SetToSortedSeq(S) ==
    IF S = {} THEN <<>>
    ELSE <<SetMin(S)>> \o SetToSortedSeq(S \ {SetMin(S)})

RemoveAt(s, i) == [j \in 1..(Len(s) - 1) |-> IF j < i THEN s[j] ELSE s[j + 1]]

RECURSIVE SortValues(_)
SortValues(s) ==
    IF s = <<>> THEN <<>>
    ELSE LET m == SetMin({s[i] : i \in 1..Len(s)})
             k == CHOOSE i \in 1..Len(s) : s[i] = m
         IN  <<m>> \o SortValues(RemoveAt(s, k))

RECURSIVE SumSeq(_)
SumSeq(s) == IF s = <<>> THEN 0 ELSE Head(s) + SumSeq(Tail(s))

-----------------------------------------------------------------------------
(* Floats *)

\* An unrounded float: NaN, or the exact fraction num/den.
NaNFloat == [nan |-> TRUE, num |-> 0, den |-> 1]
Float(n, d) == [nan |-> FALSE, num |-> n, den |-> d]

\* A float rounded to 2 decimals: NaN, or a whole number of hundredths.
NaNValue == [nan |-> TRUE, hundredths |-> 0]
Rounded(h) == [nan |-> FALSE, hundredths |-> h]

RoundHalfEven(num, den) ==
    LET q == num \div den
        r == num % den
    IN  IF 2 * r < den THEN q
        ELSE IF 2 * r > den THEN q + 1
        ELSE IF q % 2 = 0 THEN q ELSE q + 1

\* round(float(value), 2): round(nan, 2) is nan and raises nothing, so the
\* except branch (return 0.0) is not taken for NaN.
safe_round(value) ==
    IF value.nan THEN NaNValue
    ELSE Rounded(RoundHalfEven(100 * value.num, value.den))

-----------------------------------------------------------------------------
(* read_csv: schema check and coercion *)

missing_columns_unchecked_success(cols) ==
    SelectSeq(required_columns, LAMBDA col : col \notin cols /\ col # "success")

\* [col for col in required_columns if col not in self.df.columns]
missing_columns(cols) ==
    SelectSeq(required_columns, LAMBDA col : col \notin cols)

\* pd.to_datetime(column, unit='ms') raises for the whole column when one
\* value is not a number; a blank cell (NaN) becomes NaT.
to_datetime_raises(rs) == \E i \in 1..Len(rs) : rs[i].timeStamp = NonNumeric

to_datetime(cell) ==
    IF cell = Empty THEN [nat |-> TRUE, ms |-> 0]
    ELSE [nat |-> FALSE, ms |-> cell]

\* pd.to_numeric(column, errors='coerce') / 1000.0
to_numeric_coerce(cell) ==
    IF cell \in {Empty, NonNumeric} THEN [nan |-> TRUE, ticks |-> 0]
    ELSE [nan |-> FALSE, ticks |-> (cell * TicksPerSecond) \div 1000]

\* pd.read_csv parses a column as bool only when every cell is a true/false
\* text; otherwise the column keeps its strings (dtype object).
success_is_bool_dtype(rs) ==
    \A i \in 1..Len(rs) : rs[i].success \in TrueText \cup FalseText

\* .astype(bool): a bool column is unchanged, a string is truthy when it is
\* not empty.
astype_bool(rs, cell) ==
    IF success_is_bool_dtype(rs) THEN cell \in TrueText
    ELSE cell # ""

coerce_row(rs, r) ==
    [timeStamp    |-> to_datetime(r.timeStamp),
     elapsed      |-> to_numeric_coerce(r.elapsed),
     success      |-> astype_bool(rs, r.success),
     responseCode |-> r.responseCode]

coerce_drop_invalid(rs) ==
    LET kept == SelectSeq(rs, LAMBDA r : r.elapsed \notin {Empty, NonNumeric})
    IN  [i \in 1..Len(kept) |-> coerce_row(rs, kept[i])]

\* the frame after the three conversions of read_csv: one row per input row
coerce(rs) == [i \in 1..Len(rs) |-> coerce_row(rs, rs[i])]

-----------------------------------------------------------------------------
(* Graphs *)

\* x = df['timeStamp'], y = df['elapsed']
response_time_trace(d) ==
    [i \in 1..Len(d) |-> [x |-> d[i].timeStamp, y |-> d[i].elapsed]]

\* floor to '1S'
Floor1S(ms) == ms - (ms % 1000)

throughput_series_keeps_nat(d) ==
    LET valid  == 1..Len(d)
        keys   == {Floor1S(d[i].timeStamp.ms) : i \in valid}
        sorted == SetToSortedSeq(keys)
    IN  [k \in 1..Len(sorted) |->
            [bucket_start |-> sorted[k],
             count |-> Cardinality({i \in valid : Floor1S(d[i].timeStamp.ms) = sorted[k]})]]

\* df.groupby(floor(timeStamp, '1S')).size(): keys ascending, NaT keys dropped
throughput_series(d) ==
    LET valid  == {i \in 1..Len(d) : ~d[i].timeStamp.nat}
        keys   == {Floor1S(d[i].timeStamp.ms) : i \in valid}
        sorted == SetToSortedSeq(keys)
    IN  [k \in 1..Len(sorted) |->
            [bucket_start |-> sorted[k],
             count |-> Cardinality({i \in valid : Floor1S(d[i].timeStamp.ms) = sorted[k]})]]

\* df['responseCode'].value_counts()
value_counts(d) ==
    LET codes == {d[i].responseCode : i \in 1..Len(d)}
    IN  [c \in codes |-> Cardinality({i \in 1..Len(d) : d[i].responseCode = c})]

-----------------------------------------------------------------------------
(* calculate_statistics *)

StatKeys == {"Total Requests", "Average Response Time (s)", "Median Response Time (s)",
             "Min Response Time (s)", "Max Response Time (s)", "Success Rate (%)",
             "90th Percentile (s)", "95th Percentile (s)", "99th Percentile (s)"}

ElapsedKeys == StatKeys \ {"Total Requests", "Success Rate (%)"}

\* the valid (non-NaN) elapsed values, in row order, in ticks
valid_elapsed(d) ==
    LET kept == SelectSeq(d, LAMBDA r : ~r.elapsed.nan)
    IN  [i \in 1..Len(kept) |-> kept[i].elapsed.ticks]

Seconds(ticks) == Float(ticks, TicksPerSecond)

mean(v) == IF v = <<>> THEN NaNFloat ELSE Float(SumSeq(v), Len(v) * TicksPerSecond)

median(v) ==
    LET s == SortValues(v)
        n == Len(s)
    IN  IF n = 0 THEN NaNFloat
        ELSE IF n % 2 = 1 THEN Seconds(s[(n + 1) \div 2])
        ELSE Float(s[n \div 2] + s[n \div 2 + 1], 2 * TicksPerSecond)

min(v) == IF v = <<>> THEN NaNFloat ELSE Seconds(SortValues(v)[1])

max(v) == IF v = <<>> THEN NaNFloat ELSE Seconds(SortValues(v)[Len(v)])

quantile_unsorted(v, q) ==
    LET s   == v
        n   == Len(s)
        pos == q * (n - 1)
        lo  == pos \div 100 + 1
        hi  == IF lo < n THEN lo + 1 ELSE n
        fr  == pos % 100
    IN  IF n = 0 THEN NaNFloat
        ELSE Float(100 * s[lo] + fr * (s[hi] - s[lo]), 100 * TicksPerSecond)

\* Series.quantile(q/100), linear interpolation at rank (q/100)*(n-1)
quantile(v, q) ==
    LET s   == SortValues(v)
        n   == Len(s)
        pos == q * (n - 1)
        lo  == pos \div 100 + 1
        hi  == IF lo < n THEN lo + 1 ELSE n
        fr  == pos % 100
    IN  IF n = 0 THEN NaNFloat
        ELSE Float(100 * s[lo] + fr * (s[hi] - s[lo]), 100 * TicksPerSecond)

\* df['success'].mean() * 100
success_rate(d) ==
    IF d = <<>> THEN NaNFloat
    ELSE Float(100 * Cardinality({i \in 1..Len(d) : d[i].success}), Len(d))

\* len(self.df)
total_requests(d) == Len(d)

stats_without_median(d) ==
    LET v == valid_elapsed(d)
    IN  ("Total Requests" :> total_requests(d))
        @@ ("Average Response Time (s)" :> safe_round(mean(v)))
        @@ ("Min Response Time (s)" :> safe_round(min(v)))
        @@ ("Max Response Time (s)" :> safe_round(max(v)))
        @@ ("Success Rate (%)" :> safe_round(success_rate(d)))
        @@ ("90th Percentile (s)" :> safe_round(quantile(v, 90)))
        @@ ("95th Percentile (s)" :> safe_round(quantile(v, 95)))
        @@ ("99th Percentile (s)" :> safe_round(quantile(v, 99)))

\* the dict of the try branch
full_stats(d) ==
    LET v == valid_elapsed(d)
    IN  ("Total Requests" :> total_requests(d))
        @@ ("Average Response Time (s)" :> safe_round(mean(v)))
        @@ ("Median Response Time (s)" :> safe_round(median(v)))
        @@ ("Min Response Time (s)" :> safe_round(min(v)))
        @@ ("Max Response Time (s)" :> safe_round(max(v)))
        @@ ("Success Rate (%)" :> safe_round(success_rate(d)))
        @@ ("90th Percentile (s)" :> safe_round(quantile(v, 90)))
        @@ ("95th Percentile (s)" :> safe_round(quantile(v, 95)))
        @@ ("99th Percentile (s)" :> safe_round(quantile(v, 99)))

\* the dict of the except branch
minimal_stats(d) ==
    ("Total Requests" :> total_requests(d))
    @@ ("Error" :> "Unable to calculate complete statistics")

-----------------------------------------------------------------------------
(* Inputs *)

\* the cells of a column that the file does not have
AbsentNumber == Empty
AbsentText == ""

RowSet(cols, TsDom, ElDom, SuccDom, CodeDom) ==
    [timeStamp    : IF "timeStamp" \in cols THEN TsDom ELSE {AbsentNumber},
     elapsed      : IF "elapsed" \in cols THEN ElDom ELSE {AbsentNumber},
     success      : IF "success" \in cols THEN SuccDom ELSE {AbsentText},
     responseCode : IF "responseCode" \in cols THEN CodeDom ELSE {AbsentText}]

\* the state after JMeterReportGenerator(csv_file, output_dir): self.df is
\* None, nothing is computed, no report exists
InitWith(TsDom, ElDom, SuccDom, CodeDom, maxRows) ==
    /\ pc = "start"
    /\ columns \in SUBSET RequiredSet
    /\ rows \in SeqsUpTo(RowSet(columns, TsDom, ElDom, SuccDom, CodeDom), maxRows)
    /\ df = <<>>
    /\ df_state = "none"
    /\ missing = <<>>
    /\ error = "none"
    /\ response_time = <<>>
    /\ throughput = <<>>
    /\ error_dist = <<>>
    /\ stats = <<>>
    /\ file = "none"
    /\ steps = <<>>

\* the whole pipeline, every kind of cell
Init ==
    InitWith({500, 1000, Empty, NonNumeric}, {125, NonNumeric},
             {"True", "False", "maybe"}, {"200"}, MaxRows)

\* the statistics: three distinct valid elapsed values and an invalid one
InitStats ==
    InitWith({1000, NonNumeric}, {125, 250, 1500, NonNumeric},
             {"True"}, {"200"}, MaxStatRows)

\* the graphs: timestamps in one bucket, in two buckets, and blank
InitGraphs ==
    InitWith({500, 999, 1000, Empty, NonNumeric}, {125},
             {"True"}, {"200", "500"}, MaxGraphRows)

-----------------------------------------------------------------------------
(* main: read_csv *)

\* pd.read_csv raises (unreadable file): the outer except returns False and
\* main returns
read_csv_ingest_failure ==
    /\ pc = "start"
    /\ pc' = "done"
    /\ error' = "ingest"
    /\ UNCHANGED <<columns, rows, df, df_state, missing, response_time,
                   throughput, error_dist, stats, file, steps>>

\* a required column is missing: return False before any conversion
read_csv_missing_columns ==
    /\ pc = "start"
    /\ missing_columns(columns) # <<>>
    /\ df' = rows
    /\ df_state' = "raw"
    /\ missing' = missing_columns(columns)
    /\ error' = "schema"
    /\ pc' = "done"
    /\ UNCHANGED <<columns, rows, response_time, throughput, error_dist,
                   stats, file, steps>>

\* pd.to_datetime raises: return False, the frame stays as read
read_csv_timestamp_error ==
    /\ pc = "start"
    /\ missing_columns(columns) = <<>>
    /\ to_datetime_raises(rows)
    /\ df' = rows
    /\ df_state' = "raw"
    /\ error' = "timestamp"
    /\ pc' = "done"
    /\ UNCHANGED <<columns, rows, missing, response_time, throughput,
                   error_dist, stats, file, steps>>

\* process_csv_data, the other reader of the class (main does not call it):
\* no schema check (a missing column is a KeyError), to_datetime and
\* to_numeric both raise on a non-numeric cell; any exception returns False
process_csv_data_returns(cols, rs) ==
    /\ RequiredSet \ {"responseCode"} \subseteq cols
    /\ ~to_datetime_raises(rs)
    /\ \A i \in 1..Len(rs) : rs[i].elapsed # NonNumeric

\* all three conversions done: return True
read_csv_ok ==
    /\ pc = "start"
    /\ missing_columns(columns) = <<>>
    /\ ~to_datetime_raises(rows)
    /\ df' = coerce(rows)
    /\ df_state' = "coerced"
    /\ pc' = "read_ok"
    /\ steps' = Append(steps, "read_csv")
    /\ UNCHANGED <<columns, rows, missing, error, response_time, throughput,
                   error_dist, stats, file>>

-----------------------------------------------------------------------------
(* main: generate_html_report *)

generate_response_time_graph ==
    /\ pc = "read_ok"
    /\ response_time' = response_time_trace(df)
    /\ pc' = "response_time_done"
    /\ steps' = Append(steps, "response_time")
    /\ UNCHANGED <<columns, rows, df, df_state, missing, error, throughput,
                   error_dist, stats, file>>

generate_throughput_graph ==
    /\ pc = "response_time_done"
    /\ throughput' = throughput_series(df)
    /\ pc' = "throughput_done"
    /\ steps' = Append(steps, "throughput")
    /\ UNCHANGED <<columns, rows, df, df_state, missing, error, response_time,
                   error_dist, stats, file>>

generate_error_distribution ==
    /\ pc = "throughput_done"
    /\ error_dist' = value_counts(df)
    /\ pc' = "error_dist_done"
    /\ steps' = Append(steps, "error_dist")
    /\ UNCHANGED <<columns, rows, df, df_state, missing, error, response_time,
                   throughput, stats, file>>

graph_step_raises_file_opened ==
    /\ pc \in {"read_ok", "response_time_done", "throughput_done"}
    /\ error' = "report"
    /\ file' = "partial"
    /\ pc' = "done"
    /\ UNCHANGED <<columns, rows, df, df_state, missing, response_time,
                   throughput, error_dist, stats, steps>>

\* a graph step (the pandas or plotly call, to_html) raises: the except of
\* generate_html_report re-raises and main prints the error
graph_step_raises ==
    /\ pc \in {"read_ok", "response_time_done", "throughput_done"}
    /\ error' = "report"
    /\ pc' = "done"
    /\ UNCHANGED <<columns, rows, df, df_state, missing, response_time,
                   throughput, error_dist, stats, file, steps>>

calculate_statistics ==
    /\ pc = "error_dist_done"
    /\ stats' = full_stats(df)
    /\ pc' = "stats_done"
    /\ steps' = Append(steps, "statistics")
    /\ UNCHANGED <<columns, rows, df, df_state, missing, error, response_time,
                   throughput, error_dist, file>>

calculate_statistics_propagates ==
    /\ pc = "error_dist_done"
    /\ error' = "report"
    /\ pc' = "done"
    /\ UNCHANGED <<columns, rows, df, df_state, missing, response_time,
                   throughput, error_dist, stats, file, steps>>

\* the try branch raises: the except branch returns the two-entry dict
calculate_statistics_degraded ==
    /\ pc = "error_dist_done"
    /\ stats' = minimal_stats(df)
    /\ pc' = "stats_done"
    /\ steps' = Append(steps, "statistics")
    /\ UNCHANGED <<columns, rows, df, df_state, missing, error, response_time,
                   throughput, error_dist, file>>

\* the document is assembled and written in one write
write_report ==
    /\ pc = "stats_done"
    /\ file' = "whole"
    /\ pc' = "done"
    /\ steps' = Append(steps, "write")
    /\ UNCHANGED <<columns, rows, df, df_state, missing, error, response_time,
                   throughput, error_dist, stats>>

\* os.makedirs or open raises (no file), or f.write raises (the file was
\* created by open and is incomplete)
write_report_raises ==
    /\ pc = "stats_done"
    /\ file' \in {"none", "partial"}
    /\ error' = "write"
    /\ pc' = "done"
    /\ UNCHANGED <<columns, rows, df, df_state, missing, response_time,
                   throughput, error_dist, stats, steps>>

Next ==
    \/ read_csv_ingest_failure
    \/ read_csv_missing_columns
    \/ read_csv_timestamp_error
    \/ read_csv_ok
    \/ generate_response_time_graph
    \/ generate_throughput_graph
    \/ generate_error_distribution
    \/ graph_step_raises
    \/ calculate_statistics
    \/ calculate_statistics_degraded
    \/ write_report
    \/ write_report_raises

Spec == Init /\ [][Next]_vars

SpecStats == InitStats /\ [][Next]_vars

SpecGraphs == InitGraphs /\ [][Next]_vars

TypeOK ==
    /\ pc \in PcValues
    /\ df_state \in {"none", "raw", "coerced"}
    /\ file \in {"none", "partial", "whole"}
    /\ error \in {"none", "ingest", "schema", "timestamp", "report", "write"}

-----------------------------------------------------------------------------
(* Properties *)

Range(f) == {f[i] : i \in DOMAIN f}

StatisticsDone == "statistics" \in Range(steps)

\* C1: count conservation.  Whenever calculate_statistics has returned, its
\* 'Total Requests' is the number of rows of the input, however many of them
\* have an elapsed value that failed numeric coercion; the coerced frame has
\* one row per input row.
C1_CountConservation ==
    /\ df_state = "coerced" => Len(df) = Len(rows)
    /\ StatisticsDone => stats["Total Requests"] = Len(rows)

C1_Witness ==
    /\ StatisticsDone
    /\ Len(rows) = 2
    /\ \E i \in 1..Len(rows) : rows[i].elapsed = NonNumeric
    /\ \E i \in 1..Len(rows) : rows[i].elapsed # NonNumeric

\* C2: schema gate.  When a required column is absent and the file could be
\* read, read_csv has failed with exactly the absent columns as the missing
\* ones, the frame is still as read (no cell coerced), no step of
\* generate_html_report has run and no document exists.
C2_SchemaGate ==
    (pc # "start" /\ error # "ingest" /\ ~(RequiredSet \subseteq columns)) =>
        /\ error = "schema"
        /\ pc = "done"
        /\ Range(missing) = RequiredSet \ columns
        /\ Len(missing) = Cardinality(RequiredSet \ columns)
        /\ df_state = "raw"
        /\ df = rows
        /\ steps = <<>>
        /\ file = "none"

C2_Witness ==
    /\ error = "schema"
    /\ "success" \notin columns
    /\ "elapsed" \in columns
    /\ Len(rows) > 0

\* C3: a single row whose timestamp cannot be parsed does not abort the run:
\* read_csv (and process_csv_data) succeed, the row stays in the frame and is
\* counted by the statistics, only the throughput leaves it out.
C3_BadTimestampRowDoesNotAbort ==
    (/\ pc # "start"
     /\ error # "ingest"
     /\ RequiredSet \subseteq columns
     /\ Cardinality({i \in 1..Len(rows) : rows[i].timeStamp = NonNumeric}) = 1
     /\ \A i \in 1..Len(rows) : rows[i].elapsed # NonNumeric) =>
        /\ error # "timestamp"
        /\ df_state = "coerced"
        /\ Len(df) = Len(rows)
        /\ process_csv_data_returns(columns, rows)

\* C4: with no valid elapsed value (all failed coercion, or no row), every
\* elapsed-derived metric of the full bundle is the sentinel 0.0 and 'Total
\* Requests' is the row count.
C4_ZeroValidElapsedSentinel ==
    (StatisticsDone /\ DOMAIN stats = StatKeys /\ valid_elapsed(df) = <<>>) =>
        /\ \A k \in ElapsedKeys : stats[k] = Rounded(0)
        /\ stats["Total Requests"] = Len(df)

C6_SuccessRuleTable ==
    df_state = "coerced" =>
        \A i \in 1..Len(rows) : rows[i].success \in FalseText => ~df[i].success

\* C7 (as stated): the dict returned by calculate_statistics always has
\* exactly the nine metric keys.
C7_AlwaysNineKeys ==
    StatisticsDone => DOMAIN stats = StatKeys

\* C7 (amended): the dict returned by calculate_statistics has exactly the
\* nine metric keys, each a number, on the path that does not raise (the
\* empty dataset included); on the exception path it has exactly 'Total
\* Requests' and 'Error'.  'Total Requests' is present on both.
C7_NineKeysOrDegraded ==
    StatisticsDone =>
        /\ stats["Total Requests"] \in Nat
        /\ \/ /\ DOMAIN stats = StatKeys
              /\ \A k \in StatKeys \ {"Total Requests"} :
                    /\ stats[k].nan \in BOOLEAN
                    /\ stats[k].hundredths \in Nat
           \/ /\ DOMAIN stats = {"Total Requests", "Error"}
              /\ stats["Error"] = "Unable to calculate complete statistics"

C7_Witness ==
    /\ StatisticsDone
    /\ DOMAIN stats = StatKeys
    /\ rows = <<>>

\* C8: fatal errors short-circuit and leave no output.  A document exists only
\* when read_csv succeeded and the three graphs and the statistics completed,
\* in that order; when read_csv fails or a step before the write raises, the
\* run is over (no step is enabled) and no document, whole or partial, exists.
C8_FatalErrorsLeaveNoOutput ==
    /\ file # "none" =>
          /\ df_state = "coerced"
          /\ Len(steps) >= 5
          /\ SubSeq(steps, 1, 5) = <<"read_csv", "response_time", "throughput",
                                     "error_dist", "statistics">>
          /\ error \in {"none", "write"}
    /\ file = "whole" => (error = "none" /\ steps[Len(steps)] = "write")
    /\ error \in {"ingest", "schema", "timestamp", "report"} =>
          /\ file = "none"
          /\ pc = "done"
          /\ ~ENABLED Next
    /\ steps # <<>> => (df_state = "coerced" /\ steps[1] = "read_csv")

C8_Witness ==
    /\ error = "report"
    /\ steps = <<"read_csv", "response_time">>
    /\ file = "none"
    /\ Len(rows) > 0

\* C9: percentile ordering.  With at least 3 distinct valid elapsed values the
\* full bundle has min <= p90 <= p95 <= p99 <= Max, and each percentile q lies
\* between the roundings of the two sorted values around rank q*(n-1).
C9_PercentileOrdering ==
    LET v == valid_elapsed(df)
        s == SortValues(v)
        n == Len(s)
        p90 == stats["90th Percentile (s)"]
        p95 == stats["95th Percentile (s)"]
        p99 == stats["99th Percentile (s)"]
        mx  == stats["Max Response Time (s)"]
        mn  == stats["Min Response Time (s)"]
        Between(q, p) ==
            LET lo == (q * (n - 1)) \div 100 + 1
                hi == IF lo < n THEN lo + 1 ELSE n
            IN  /\ RoundHalfEven(s[lo], 100) <= p.hundredths
                /\ p.hundredths <= RoundHalfEven(s[hi], 100)
    IN  (/\ StatisticsDone
         /\ DOMAIN stats = StatKeys
         /\ Cardinality(Range(v)) >= 3) =>
            /\ ~p90.nan /\ ~p95.nan /\ ~p99.nan /\ ~mx.nan /\ ~mn.nan
            /\ mn.hundredths <= p90.hundredths
            /\ p90.hundredths <= p95.hundredths
            /\ p95.hundredths <= p99.hundredths
            /\ p99.hundredths <= mx.hundredths
            /\ Between(90, p90) /\ Between(95, p95) /\ Between(99, p99)

C9_Witness ==
    /\ StatisticsDone
    /\ DOMAIN stats = StatKeys
    /\ Cardinality(Range(valid_elapsed(df))) = 3
    /\ stats["90th Percentile (s)"].hundredths < stats["95th Percentile (s)"].hundredths
    /\ stats["95th Percentile (s)"].hundredths < stats["99th Percentile (s)"].hundredths

\* C10: statistics degradation.  An exception in the statistics never ends
\* the run: once the error distribution is done the run cannot fail before
\* the write; the degraded dict holds only 'Total Requests' (the row count)
\* and the 'Error' flag, and the write of the report is the next step.
C10_StatisticsDegradation ==
    /\ (Len(steps) >= 4 /\ pc = "done") => (error \in {"none", "write"} /\ StatisticsDone)
    /\ (StatisticsDone /\ "Error" \in DOMAIN stats) =>
          /\ DOMAIN stats = {"Total Requests", "Error"}
          /\ stats["Total Requests"] = Len(rows)
          /\ pc = "stats_done" => ENABLED write_report
          /\ pc = "done" => (file = "whole" \/ error = "write")

C10_Witness ==
    /\ "Error" \in DOMAIN stats
    /\ file = "whole"
    /\ Len(rows) > 0

====
